---- MODULE Spec2Model ----
(***************************************************************************)
(* Model of the search lambda of semantic-search-with-amazon-opensearch:   *)
(* the filter builders (build_date_filter, build_spatial_filter,           *)
(* build_sort_filter, build_wildcard_filter), the query assembly           *)
(* (semantic_search_neighbors, text_search_keywords), the projection       *)
(* (create_api_response_geojson) and lambda_handler, which strings them    *)
(* together around the two external calls (SageMaker, OpenSearch); and of   *)
(* fetch_log_events of the search-logs lambda, the generator that pages    *)
(* through a CloudWatch log stream.                                        *)
(*                                                                         *)
(* Python strings that the code measures, lower-cases, splits or strips    *)
(* are sequences of one-character strings; names that are only compared    *)
(* (field names, relations, sort fields) are TLA+ strings.                 *)
(***************************************************************************)
EXTENDS Integers, Sequences, FiniteSets, TLC

VARIABLES
    now,        \* the clock: what datetime.now() returns, [year, month, day]
    args,       \* arguments of the filter builder under test (harness specs)
    ret,        \* its outcome: pending, returned(value) or raised(error)
    pc,         \* lambda_handler: position of the invocation
    event,      \* lambda_handler: the event it was invoked with
    filters,    \* lambda_handler: the local `filters`
    sort_param, \* lambda_handler: the local `sort_param`
    features,   \* lambda_handler: the local `features`
    calls,      \* the external calls made so far, in order
    query,      \* the body of the search submitted to OpenSearch
    res,        \* what OpenSearch answered
    outcome,    \* what the invocation returned or raised
    fetch_pc,   \* fetch_log_events: position of the generator
    next_token, \* fetch_log_events: the local `next_token`
    events,     \* fetch_log_events: the local `events`, the last response
    params,     \* fetch_log_events: the local `params`
    event_index,\* fetch_log_events: position of the for loop in the page
    requests,   \* the requests get_log_events received, in order
    yielded     \* the events the generator has yielded, in order

vars == <<now, args, ret, pc, event, filters, sort_param, features, calls, query, res, outcome,
          fetch_pc, next_token, events, params, event_index, requests, yielded>>

handlerVars == <<pc, event, filters, sort_param, features, calls, query, res, outcome>>

logVars == <<fetch_pc, next_token, events, params, event_index, requests, yielded>>

-----------------------------------------------------------------------------
(* Python values *)

\* None, among values modelled as character sequences (no string is <<"None">>:
\* its one element is not a character).
None == <<"None">>

\* None, among values modelled as TLA+ strings (dictionary keys, names).
NoneS == "<None>"

\* bool(s) of a str-or-None value.
Truthy(s) == s # None /\ s # <<>>

\* bool(s) of a name-or-None value.
TruthyS(s) == s # NoneS /\ s # ""

\* Values whose type varies (numbers, strings, lists, None) carry a tag.
NoneV == [t |-> "none"]

IntV(n) == [t |-> "int", v |-> n]

StrV(s) == [t |-> "str", v |-> s]

ListV(l) == [t |-> "list", v |-> l]

FloatV(n, k_) == [t |-> "float", v |-> [n |-> n, k |-> k_]]

\* A name-or-None held where a list may be held too.
NameV(s) == [t |-> "name", v |-> s]

\* A key that the event does not have (event.get returns its default).
Absent == [t |-> "absent"]

AbsentS == "<absent>"

UpperLetters == <<"A","B","C","D","E","F","G","H","I","J","K","L","M",
                  "N","O","P","Q","R","S","T","U","V","W","X","Y","Z">>

LowerLetters == <<"a","b","c","d","e","f","g","h","i","j","k","l","m",
                  "n","o","p","q","r","s","t","u","v","w","x","y","z">>

LowerChar(c) ==
    IF \E i \in DOMAIN UpperLetters : UpperLetters[i] = c
    THEN LowerLetters[CHOOSE i \in DOMAIN UpperLetters : UpperLetters[i] = c]
    ELSE c

\* str.lower()
Lower(s) == [i \in 1..Len(s) |-> LowerChar(s[i])]

IsSpace(c) == c = " "

\* str.strip()
RECURSIVE LStrip(_)
LStrip(s) == IF s # <<>> /\ IsSpace(Head(s)) THEN LStrip(Tail(s)) ELSE s

RECURSIVE RStrip(_)
RStrip(s) ==
    IF s # <<>> /\ IsSpace(s[Len(s)]) THEN RStrip(SubSeq(s, 1, Len(s) - 1)) ELSE s

Strip(s) == RStrip(LStrip(s))

\* str.split(sep) for a one-character separator: always at least one token,
\* empty tokens kept.
RECURSIVE SplitFrom(_, _, _)
SplitFrom(s, sep, cur) ==
    IF s = <<>> THEN <<cur>>
    ELSE IF Head(s) = sep THEN <<cur>> \o SplitFrom(Tail(s), sep, <<>>)
    ELSE SplitFrom(Tail(s), sep, Append(cur, Head(s)))

Split(s, sep) == SplitFrom(s, sep, <<>>)

DigitChars == <<"0","1","2","3","4","5","6","7","8","9">>

IsDigit(c) == \E i \in DOMAIN DigitChars : DigitChars[i] = c

DigitVal(c) == (CHOOSE i \in DOMAIN DigitChars : DigitChars[i] = c) - 1

\* The decimal digits of n, zero-padded to at least w characters.
RECURSIVE ZeroPad(_, _)
ZeroPad(n, w) ==
    IF w <= 1 /\ n < 10 THEN <<DigitChars[n + 1]>>
    ELSE Append(ZeroPad(n \div 10, w - 1), DigitChars[(n % 10) + 1])

\* datetime.strftime('%Y-%m-%d')
Strftime(d) == ZeroPad(d.year, 4) \o <<"-">> \o ZeroPad(d.month, 2) \o <<"-">> \o ZeroPad(d.day, 2)

-----------------------------------------------------------------------------
(* Outcomes of a call *)

Pending == [status |-> "pending"]

Returned(v) == [status |-> "returned", value |-> v]

Raised(e) == [status |-> "raised", error |-> e]

NoArgs == [fn |-> "none"]

NoQuery == [kind |-> "none"]

-----------------------------------------------------------------------------
(* build_date_filter *)

S_null == <<"n","u","l","l">>

S_not_available == <<"n","o","t"," ","a","v","a","i","l","a","b","l","e",";"," ",
                     "i","n","d","i","s","p","o","n","i","b","l","e">>

S_present == <<"p","r","e","s","e","n","t">>

\* ['null', 'not available; indisponible']
NullSentinels == {S_null, S_not_available}

RangeClause(field, op, bound) ==
    [kind |-> "range", field |-> field, op |-> op, bound |-> bound]

TermClause(field, value) == [kind |-> "term", field |-> field, value |-> value]

\* Mutant: a year on the start side expands to December 31st.
ExpandStart_YearEnd(start_date) ==
    IF Len(start_date) = 7 THEN start_date \o <<"-","0","1">>
    ELSE IF Len(start_date) = 4 THEN start_date \o <<"-","1","2","-","3","1">>
    ELSE start_date

\* The start bound: YYYY-MM gets the first day, YYYY gets January 1st.
ExpandStart(start_date) ==
    IF Len(start_date) = 7 THEN start_date \o <<"-","0","1">>
    ELSE IF Len(start_date) = 4 THEN start_date \o <<"-","0","1","-","0","1">>
    ELSE start_date

\* The end bound: YYYY-MM gets day 31, YYYY gets December 31st.
ExpandEnd(end_date) ==
    IF Len(end_date) = 7 THEN end_date \o <<"-","3","1">>
    ELSE IF Len(end_date) = 4 THEN end_date \o <<"-","1","2","-","3","1">>
    ELSE end_date

\* The clauses of the `if start_date and ...` block.
StartClauses(begin_field, start_date) ==
    IF Truthy(start_date) /\ Lower(start_date) \notin NullSentinels
    THEN <<RangeClause(begin_field, "gte", ExpandStart(start_date))>>
    ELSE <<>>

\* The clauses of the `if end_date:` block.  The if/elif chain appends the
\* term (sentinel) or the range on the current date ("present") and rebinds
\* end_date; the closing `if end_date.lower() != "present"` then tests the
\* rebound end_date and appends a range on it.
EndClauses(end_field, end_date, current_date) ==
    IF ~Truthy(end_date) THEN <<>>
    ELSE
        LET isNull    == Lower(end_date) \in NullSentinels
            isPresent == ~isNull /\ Lower(end_date) = S_present
            chain     == IF isNull THEN <<TermClause(end_field, S_null)>>
                         ELSE IF isPresent
                              THEN <<RangeClause(end_field, "lte", current_date)>>
                              ELSE <<>>
            rebound   == IF isNull THEN end_date
                         ELSE IF isPresent THEN current_date
                         ELSE ExpandEnd(end_date)
            closing   == IF Lower(rebound) # S_present
                         THEN <<RangeClause(end_field, "lte", rebound)>>
                         ELSE <<>>
        IN chain \o closing

build_date_filter(begin_field, end_field, start_date, end_date, clock) ==
    LET current_date == Strftime(clock)
    IN StartClauses(begin_field, start_date) \o EndClauses(end_field, end_date, current_date)

-----------------------------------------------------------------------------
(* float(): decimal literals *)

\* A float is the exact decimal n / 10^k with no trailing zero digit (k = 0
\* or n not a multiple of 10).  The inputs here have at most a few digits, for
\* which float()'s rounding changes no comparison with 90 or 180.
RECURSIVE Float(_, _)
Float(n, k) ==
    IF k > 0 /\ n % 10 = 0 THEN Float(n \div 10, k - 1) ELSE [n |-> n, k |-> k]

RECURSIVE Pow10(_)
Pow10(k) == IF k = 0 THEN 1 ELSE 10 * Pow10(k - 1)

\* a <= b
FloatLeq(a, b) == a.n * Pow10(b.k) <= b.n * Pow10(a.k)

NotANumber == [nan |-> TRUE]

AllDigits(s) == \A i \in DOMAIN s : IsDigit(s[i])

RECURSIVE DigitsValue(_)
DigitsValue(s) ==
    IF s = <<>> THEN 0 ELSE 10 * DigitsValue(SubSeq(s, 1, Len(s) - 1)) + DigitVal(s[Len(s)])

\* float(tok) for tok over the characters 0-9 + - . and others: an optional
\* sign, then digits with an optional point, at least one digit in all.
\* NotANumber stands for the ValueError.
ParseFloat(tok) ==
    LET signed == tok # <<>> /\ Head(tok) \in {"-", "+"}
        body   == IF signed THEN Tail(tok) ELSE tok
        parts  == Split(body, ".")
        ip     == parts[1]
        fp     == IF Len(parts) >= 2 THEN parts[2] ELSE <<>>
        ok     == /\ Len(parts) <= 2
                  /\ AllDigits(ip)
                  /\ AllDigits(fp)
                  /\ Len(ip) + Len(fp) >= 1
        mag    == DigitsValue(ip \o fp)
    IN IF ~ok THEN NotANumber
       ELSE Float(IF signed /\ Head(tok) = "-" THEN 0 - mag ELSE mag, Len(fp))

-----------------------------------------------------------------------------
(* build_spatial_filter *)

MaxLon == 180

MaxLat == 90

DefaultRelation == "intersects"

\* Mutant: `contains` is missing from the supported relations.
supported_relations_NoContains == {"intersects", "disjoint", "within"}

supported_relations == {"intersects", "disjoint", "within", "contains"}

\* [val for val in bbox.split("|") if val.strip()]: the tokens float() is
\* applied to, blank ones dropped.
NonBlankTokens(bbox) ==
    LET NonBlank(tok) == Strip(tok) # <<>>
    IN SelectSeq(Split(bbox, "|"), NonBlank)

InLonRange(x) == FloatLeq(Float(0 - MaxLon, 0), x) /\ FloatLeq(x, Float(MaxLon, 0))

\* Mutant: latitudes are validated against the longitude range.
InLatRange_AsLon(x) == FloatLeq(Float(0 - MaxLon, 0), x) /\ FloatLeq(x, Float(MaxLon, 0))

InLatRange(x) == FloatLeq(Float(0 - MaxLat, 0), x) /\ FloatLeq(x, Float(MaxLat, 0))

\* Mutant: the corners are emitted bottom-left, top-right.
EnvelopeCoordinates_MinMax(min_lon, min_lat, max_lon, max_lat) ==
    <<(<<min_lon, min_lat>>), (<<max_lon, max_lat>>)>>

\* "coordinates": [[min_lon, max_lat], [max_lon, min_lat]]
EnvelopeCoordinates(min_lon, min_lat, max_lon, max_lat) ==
    <<(<<min_lon, max_lat>>), (<<max_lon, min_lat>>)>>

GeoShapeClause(geo_field, coordinates, relation) ==
    [kind |-> "geo_shape", field |-> geo_field, type |-> "envelope",
     coordinates |-> coordinates, relation |-> relation]

build_spatial_filter(geo_field, bbox, relation) ==
    LET rel    == IF relation = NoneS THEN DefaultRelation ELSE relation
        toks   == NonBlankTokens(bbox)
        nums   == [i \in DOMAIN toks |-> ParseFloat(Strip(toks[i]))]
    IN IF rel \notin supported_relations THEN Raised("ValueError: unsupported relation")
       ELSE IF \E i \in DOMAIN nums : nums[i] = NotANumber
            THEN Raised("ValueError: invalid bbox format")
       ELSE IF Len(nums) # 4 THEN Raised("ValueError: invalid bbox")
       ELSE IF ~(InLonRange(nums[1]) /\ InLonRange(nums[3]))
            THEN Raised("ValueError: longitude")
       ELSE IF ~(InLatRange(nums[2]) /\ InLatRange(nums[4]))
            THEN Raised("ValueError: latitude")
       ELSE Returned(GeoShapeClause(geo_field,
                        EnvelopeCoordinates(nums[1], nums[2], nums[3], nums[4]), rel))

-----------------------------------------------------------------------------
(* build_sort_filter *)

supported_sort_fields == {"_score", "date", "popularity", "title", "relevancy"}

SortClause(field, order) == [kind |-> "sort", field |-> field, order |-> order]

\* Mutant: the requested order is kept for _score too.
ForcedOrder_Kept(sort_field, sort_order) == sort_order

\* `if sort_field == "_score": sort_order = "desc"`
ForcedOrder(sort_field, sort_order) ==
    IF sort_field = "_score" THEN "desc" ELSE sort_order

\* Mutant: `relevancy` is not mapped to _score.
build_sort_filter_NoAlias(sort_field, sort_order) ==
    IF sort_field \notin supported_sort_fields
    THEN Raised("ValueError: unsupported sort field")
    ELSE Returned(<<SortClause(sort_field, ForcedOrder(sort_field, sort_order))>>)

build_sort_filter(sort_field, sort_order) ==
    LET field == IF sort_field = "relevancy" THEN "_score" ELSE sort_field
    IN IF field \notin supported_sort_fields
       THEN Raised("ValueError: unsupported sort field")
       ELSE Returned(<<SortClause(field, ForcedOrder(field, sort_order))>>)

-----------------------------------------------------------------------------
(* build_wildcard_filter *)

WildcardClause(field_path, value) ==
    [kind |-> "wildcard", field |-> field_path, value |-> <<"*">> \o value \o <<"*">>]

\* Mutant: the kept values are not stripped.
ValueList_Unstripped(values) ==
    LET toks == Split(values, ",")
        NonBlank(v) == Strip(v) # <<>>
    IN SelectSeq(toks, NonBlank)

\* [val.strip() for val in values.split(",") if val.strip()]
ValueList(values) ==
    LET toks     == Split(values, ",")
        stripped == [i \in DOMAIN toks |-> Strip(toks[i])]
        NonEmpty(v) == v # <<>>
    IN SelectSeq(stripped, NonEmpty)

\* One clause per (value, field path), value-major.
RECURSIVE ShouldClauses(_, _)
ShouldClauses(value_list, field_paths) ==
    IF value_list = <<>> THEN <<>>
    ELSE [i \in DOMAIN field_paths |-> WildcardClause(field_paths[i], Head(value_list))]
         \o ShouldClauses(Tail(value_list), field_paths)

build_wildcard_filter(field_paths, values) ==
    [kind |-> "bool", should |-> ShouldClauses(ValueList(values), field_paths),
     minimum_should_match |-> 1]

-----------------------------------------------------------------------------
(* Dictionaries: sequences of <<key, value>> with distinct keys, in
   insertion order *)

DictHas(d, key) == \E i \in DOMAIN d : d[i][1] = key

DictGet(d, key) == d[CHOOSE i \in DOMAIN d : d[i][1] = key][2]

\* d without key (dict.pop(key, None) on a copy)
DictRemove(d, key) ==
    LET Other(kv) == kv[1] # key
    IN SelectSeq(d, Other)

DictKeys(d) == [i \in DOMAIN d |-> d[i][1]]

\* new_dict = {key: value}; new_dict.update(original_dict): key comes first,
\* and keeps the original's value when the original has the key.
add_to_top_of_dict(original_dict, key, value) ==
    IF key = NoneS \/ value = NoneV THEN original_dict
    ELSE <<(<<key, IF DictHas(original_dict, key)
                   THEN DictGet(original_dict, key) ELSE value>>)>>
         \o DictRemove(original_dict, key)

-----------------------------------------------------------------------------
(* create_api_response_geojson *)

\* A hit of the backend: `source` is its _source (NoneV when the hit has
\* none), `score` its _score (Absent when the hit has no such key).
Hit(source, score) == [source |-> source, score |-> score]

\* The items one hit adds: one FeatureCollection, or none when the body of
\* the try raised (no _source, no coordinates).
ProjectHit(hit, count) ==
    IF hit.source = NoneV THEN <<>>
    ELSE
        LET copied  == DictRemove(hit.source.v, "vector")
            scored  == add_to_top_of_dict(copied, "relevancy",
                          IF hit.score = Absent THEN StrV(<<>>) ELSE hit.score)
            counted == add_to_top_of_dict(scored, "row_num", IntV(count))
        IN IF ~DictHas(counted, "coordinates") THEN <<>>
           ELSE <<[type |-> "FeatureCollection",
                   features |-> <<[type |-> "Feature",
                                   geometry |-> DictGet(counted, "coordinates"),
                                   properties |-> DictRemove(counted, "coordinates")]>>]>>

\* The items of hits[from..], counted from `from`.
RECURSIVE ProjectFrom(_, _)
ProjectFrom(hits, count) ==
    IF count > Len(hits) THEN <<>>
    ELSE ProjectHit(hits[count], count) \o ProjectFrom(hits, count + 1)

create_api_response_geojson(search_results) ==
    [total_hits |-> Len(search_results.hits),
     items |-> ProjectFrom(search_results.hits, 1)]

-----------------------------------------------------------------------------
(* lambda_handler *)

model_name == "minilm-pretrain-knn"

k == 10

DefaultSize == 10

DefaultFrom == 0

\* filter_config.json, as lambda_handler reads it.
filter_config ==
    [org |-> <<"org.en", "org.fr">>, begin |-> <<"begin">>, end |-> <<"end">>,
     bbox |-> <<"coordinates">>]

\* event.get(key, default)
EventGet(e, key, default) == IF e[key] = Absent THEN default ELSE e[key]

EventGetS(e, key, default) == IF e[key] = AbsentS THEN default ELSE e[key]

\* int(x): the integer, or the exception it raises.
PyInt(x) ==
    IF x.t = "int" THEN Returned(x.v)
    ELSE IF x.t = "str" THEN
        LET s      == Strip(x.v)
            signed == s # <<>> /\ Head(s) \in {"-", "+"}
            body   == IF signed THEN Tail(s) ELSE s
        IN IF body # <<>> /\ AllDigits(body)
           THEN Returned(IF signed /\ Head(s) = "-" THEN 0 - DigitsValue(body)
                         ELSE DigitsValue(body))
           ELSE Raised("ValueError: invalid literal for int()")
    ELSE Raised("TypeError: int() argument")

\* A bare string in a list of clauses.
BareString(s) == [kind |-> "str", value |-> s]

\* filters.extend({"term": {...}}): extending a list by a dict appends the
\* dict's keys.
MetadataSourceEntries(metadata_source_filter) == <<BareString("term")>>

\* The temporal block: which builder call is made for which inputs.
DateEntries(start_date_filter, end_date_filter, clock) ==
    IF Truthy(start_date_filter) /\ Truthy(end_date_filter)
    THEN build_date_filter(filter_config.begin[1], filter_config.end[1],
                           start_date_filter, end_date_filter, clock)
    ELSE IF Truthy(start_date_filter)
    THEN build_date_filter(filter_config.begin[1], NoneS, start_date_filter, None, clock)
    ELSE IF Truthy(end_date_filter)
    THEN build_date_filter(filter_config.end[1], NoneS, None, end_date_filter, clock)
    ELSE <<>>

\* Lines 246-312 of lambda_handler: the locals after filter compilation, or
\* the exception raised on the way.
CompileFilters(e, clock) ==
    LET size_param == EventGet(e, "size", IntV(DefaultSize))
        sort_in    == EventGetS(e, "sort", "relevancy")
        order_in   == EventGetS(e, "order", "desc")
        orgPart    == IF Truthy(e.org)
                      THEN <<build_wildcard_filter(filter_config.org, e.org)>> ELSE <<>>
        metaPart   == IF Truthy(e.metadata_source)
                      THEN MetadataSourceEntries(e.metadata_source) ELSE <<>>
        datePart   == DateEntries(e.begin, e.end, clock)
        spatial    == IF Truthy(e.bbox)
                      THEN build_spatial_filter(filter_config.bbox[1], e.bbox, e.relation)
                      ELSE Pending
        sorted     == IF TruthyS(sort_in) /\ TruthyS(order_in)
                      THEN build_sort_filter(sort_in, order_in) ELSE Pending
        list       == orgPart \o metaPart \o datePart
                      \o (IF spatial.status = "returned" THEN <<spatial.value>> ELSE <<>>)
    IN IF PyInt(size_param).status = "raised" THEN PyInt(size_param)
       ELSE IF spatial.status = "raised" THEN spatial
       ELSE IF sorted.status = "raised" THEN sorted
       ELSE Returned([filters    |-> IF list = <<>> THEN NoneV ELSE ListV(list),
                      sort_param |-> IF sorted.status = "returned"
                                     THEN ListV(sorted.value) ELSE NameV(sort_in)])

\* "must": {"knn": {"vector": {"vector": features, "k": k_neighbors}}}
KnnMust(features_, k_neighbors) ==
    <<[kind |-> "knn", vector |-> features_, k |-> k_neighbors]>>

\* The query semantic_search_neighbors submits.
SemanticQuery(features_, sort_param_, k_neighbors, from_param, idx_name, filters_) ==
    [kind   |-> "semantic",
     index  |-> idx_name,
     must   |-> KnnMust(features_, k_neighbors),
     filter |-> IF filters_ = NoneV \/ filters_.v = <<>> THEN <<>> ELSE filters_.v,
     size   |-> k_neighbors,
     from   |-> from_param,
     sort   |-> sort_param_]

\* The search_body text_search_keywords submits.
TextQuery(payload, k_, idx_name) ==
    [kind   |-> "text",
     index  |-> idx_name,
     size   |-> k_,
     source_excludes |-> <<"vector">>,
     highlight |-> <<"description">>,
     must   |-> <<[kind |-> "multi_match", query |-> payload,
                   fields |-> <<"topicCategory", "keywords", "description", "title*",
                                "organisation", "systemName">>]>>]

-----------------------------------------------------------------------------
(* Inputs *)

D_year == <<"2","0","2","0">>

D_month == <<"2","0","2","0","-","0","2">>

D_day == <<"2","0","2","0","-","0","2","-","1","5">>

D_short == <<"2","0">>

D_NULL == <<"N","U","L","L">>

D_Not_Available == <<"N","o","t"," ","A","v","a","i","l","a","b","l","e",";"," ",
                     "I","n","d","i","s","p","o","n","i","b","l","e">>

D_Present == <<"P","r","e","s","e","n","t">>

\* The values a begin/end parameter takes here: absent, empty, the sentinels
\* in two spellings, and dates of length 2, 4, 7 and 10.
DateValues == {None, <<>>, D_year, D_month, D_day, D_short,
               S_null, D_NULL, S_not_available, D_Not_Available,
               S_present, D_Present}

Clocks == {[year |-> 2026, month |-> 11, day |-> 3],
           [year |-> 2024, month |-> 2, day |-> 29]}

\* The clock where no date is formatted.
AnyClock == [year |-> 2026, month |-> 11, day |-> 3]

BeginFields == {"begin", NoneS}

EndFields == {"end", "begin", NoneS}

HandlerIdle ==
    /\ pc = "idle"
    /\ event = NoArgs
    /\ filters = NoneV
    /\ sort_param = NoneV
    /\ features = NoneV
    /\ calls = <<>>
    /\ query = NoQuery
    /\ res = NoneV
    /\ outcome = Pending

\* fetch_log_events is not running.
LogsIdle ==
    /\ fetch_pc = "idle"
    /\ next_token = NoneV
    /\ events = <<>>
    /\ params = <<>>
    /\ event_index = 1
    /\ requests = <<>>
    /\ yielded = <<>>

-----------------------------------------------------------------------------
(* SpecDate: build_date_filter applied to every combination of inputs *)

InitDate ==
    /\ now \in Clocks
    /\ args \in [fn : {"build_date_filter"}, begin_field : BeginFields,
                 end_field : EndFields, start_date : DateValues, end_date : DateValues]
    /\ ret = Pending
    /\ HandlerIdle
    /\ LogsIdle

CallDate ==
    /\ args.fn = "build_date_filter"
    /\ ret = Pending
    /\ ret' = Returned(build_date_filter(args.begin_field, args.end_field,
                                         args.start_date, args.end_date, now))
    /\ UNCHANGED <<now, args, handlerVars, logVars>>

NextDate == CallDate

SpecDate == InitDate /\ [][NextDate]_vars

-----------------------------------------------------------------------------
(* SpecSpatial: build_spatial_filter applied to bbox strings built from tokens *)

MaxTokens == 5

\* A token of a bbox string: its text and, when the text is a decimal
\* literal (spaces around it allowed), the number it denotes.
Token(text, numeric, val) == [text |-> text, numeric |-> numeric, val |-> val]

T_minus180 == Token(<<"-","1","8","0">>, TRUE, Float(0 - 180, 0))

T_90 == Token(<<"9","0">>, TRUE, Float(90, 0))

T_181 == Token(<<"1","8","1">>, TRUE, Float(181, 0))

T_7_5 == Token(<<" ","7",".","5"," ">>, TRUE, Float(75, 1))

T_empty == Token(<<>>, FALSE, NotANumber)

T_x == Token(<<"x">>, FALSE, NotANumber)

TokenValues == {T_minus180, T_90, T_181, T_7_5, T_empty, T_x}

\* "|".join(texts)
RECURSIVE JoinBar(_)
JoinBar(toks) ==
    IF toks = <<>> THEN <<>>
    ELSE IF Len(toks) = 1 THEN toks[1].text
    ELSE toks[1].text \o <<"|">> \o JoinBar(Tail(toks))

TokenLists == UNION {[1..n -> TokenValues] : n \in 1..MaxTokens}

RelationValues == {NoneS, "intersects", "disjoint", "within", "contains", "overlaps", ""}

GeoFields == {"coordinates"}

InitSpatial ==
    /\ now = AnyClock
    /\ \E toks \in TokenLists, rel \in RelationValues, gf \in GeoFields :
         args = [fn |-> "build_spatial_filter", geo_field |-> gf, tokens |-> toks,
                 bbox |-> JoinBar(toks), relation |-> rel]
    /\ ret = Pending
    /\ HandlerIdle
    /\ LogsIdle

CallSpatial ==
    /\ args.fn = "build_spatial_filter"
    /\ ret = Pending
    /\ ret' = build_spatial_filter(args.geo_field, args.bbox, args.relation)
    /\ UNCHANGED <<now, args, handlerVars, logVars>>

NextSpatial == CallSpatial

SpecSpatial == InitSpatial /\ [][NextSpatial]_vars

-----------------------------------------------------------------------------
(* SpecSort: build_sort_filter applied to every field and order *)

SortFieldValues == {"relevancy", "_score", "date", "popularity", "title",
                    "Relevancy", "score", "id", "", NoneS}

SortOrderValues == {"asc", "desc", "ASC", "random", "", NoneS}

InitSort ==
    /\ now = AnyClock
    /\ args \in [fn : {"build_sort_filter"}, sort_field : SortFieldValues,
                 sort_order : SortOrderValues]
    /\ ret = Pending
    /\ HandlerIdle
    /\ LogsIdle

CallSort ==
    /\ args.fn = "build_sort_filter"
    /\ ret = Pending
    /\ ret' = build_sort_filter(args.sort_field, args.sort_order)
    /\ UNCHANGED <<now, args, handlerVars, logVars>>

NextSort == CallSort

SpecSort == InitSort /\ [][NextSort]_vars

-----------------------------------------------------------------------------
(* SpecWildcard: build_wildcard_filter applied to lists of field paths and to
   comma-separated value strings *)

MaxValues == 3

\* The pieces between the commas of a value string: plain, padded, empty,
\* blank, and one with a space inside.
ValueTokens == {<<"x">>, <<" ", "y">>, <<>>, <<" ">>, <<"x", " ", "z", " ">>}

ValueTokenLists == UNION {[1..n -> ValueTokens] : n \in 0..MaxValues}

\* ",".join(toks)
RECURSIVE JoinComma(_)
JoinComma(toks) ==
    IF toks = <<>> THEN <<>>
    ELSE IF Len(toks) = 1 THEN toks[1]
    ELSE toks[1] \o <<",">> \o JoinComma(Tail(toks))

FieldPathLists == {<<>>, <<"a.en">>, <<"a.en", "a.fr">>, <<"a.fr", "a.en">>}

InitWildcard ==
    /\ now = AnyClock
    /\ \E toks \in ValueTokenLists, fp \in FieldPathLists :
         args = [fn |-> "build_wildcard_filter", field_paths |-> fp, tokens |-> toks,
                 values |-> JoinComma(toks)]
    /\ ret = Pending
    /\ HandlerIdle
    /\ LogsIdle

CallWildcard ==
    /\ args.fn = "build_wildcard_filter"
    /\ ret = Pending
    /\ ret' = Returned(build_wildcard_filter(args.field_paths, args.values))
    /\ UNCHANGED <<now, args, handlerVars, logVars>>

NextWildcard == CallWildcard

SpecWildcard == InitWildcard /\ [][NextWildcard]_vars

-----------------------------------------------------------------------------
(* Spec: one invocation of lambda_handler *)

MaxHits == 2

ExtraMatches == 7

Methods == {"SemanticSearch", "KeywordSearch"}

Payload == <<"q">>

OrgValues == {None, <<"x", ",", " ", "y">>, <<" ", ",", " ">>}

MetadataSourceValues == {None, <<"s", "r", "c">>}

BeginValues == {None, D_year, S_null}

EndValues == {None, D_month, S_present}

BBoxInputs == {None, JoinBar(<<T_minus180, T_7_5, T_90, T_90>>),
               JoinBar(<<T_181, T_90, T_90, T_90>>)}

RelationInputs == {NoneS, "within", "overlaps"}

SizeValues == {Absent, IntV(0), IntV(5), StrV(<<"a", "b", "c">>)}

FromValues == {Absent, IntV(2), IntV(0 - 1), StrV(<<"a", "b", "c">>)}

SortInputs == {AbsentS, "date", "", "bogus"}

OrderInputs == {AbsentS, "asc", "", "random"}

\* Events that vary the filter inputs, pagination and sort left out.
EventsFilters ==
    {[method |-> m, searchString |-> Payload, from |-> Absent, size |-> Absent,
      sort |-> AbsentS, order |-> AbsentS, org |-> o, metadata_source |-> ms,
      begin |-> b, end |-> e, bbox |-> bb, relation |-> r, lang |-> AbsentS] :
        m \in Methods, o \in OrgValues, ms \in MetadataSourceValues,
        b \in BeginValues, e \in EndValues, bb \in BBoxInputs, r \in RelationInputs}

\* Events that vary pagination and sort, with no filter input.
EventsPaging ==
    {[method |-> m, searchString |-> Payload, from |-> f, size |-> s,
      sort |-> so, order |-> od, org |-> None, metadata_source |-> None,
      begin |-> None, end |-> None, bbox |-> None, relation |-> NoneS,
      lang |-> AbsentS] :
        m \in Methods, f \in FromValues, s \in SizeValues,
        so \in SortInputs, od \in OrderInputs}

LangValues == {"en", "fr"}

\* Events that name a language (the API's `lang` parameter) and nothing else.
EventsLang ==
    {[method |-> m, searchString |-> Payload, from |-> Absent, size |-> Absent,
      sort |-> AbsentS, order |-> AbsentS, org |-> None, metadata_source |-> None,
      begin |-> None, end |-> None, bbox |-> None, relation |-> NoneS,
      lang |-> l] :
        m \in Methods, l \in LangValues}

Events == EventsFilters \cup EventsPaging \cup EventsLang

\* What invoke_sagemaker_endpoint returns: the embedding, an empty list, or
\* None (the endpoint raised and the except branch fell through, or the body
\* was JSON null).
EmbeddingResults == {ListV(<<3, 1>>), ListV(<<>>), NoneV}

Geometry == [t |-> "geometry", v |-> "Polygon"]

SourceValid ==
    ListV(<< <<"id", StrV(<<"a">>)>>, <<"vector", ListV(<<3, 1>>)>>,
             <<"coordinates", Geometry>>, <<"title", StrV(<<"T">>)>>,
             <<"description", StrV(<<"D">>)>>, <<"keywords", StrV(<<"K">>)>> >>)

SourceNoCoordinates ==
    ListV(<< <<"id", StrV(<<"b">>)>>, <<"vector", ListV(<<3, 1>>)>>,
             <<"title", StrV(<<"U">>)>> >>)

HitValues == {Hit(SourceValid, FloatV(15, 1)),
              Hit(SourceNoCoordinates, FloatV(5, 1)),
              Hit(SourceValid, NoneV)}

HitLists == UNION {[1..n -> HitValues] : n \in 0..MaxHits}

\* What os_client.search returns: a page of hits and the total match count,
\* which is the page's length or more.
BackendResults ==
    {[hits |-> h, total |-> Len(h) + x] : h \in HitLists, x \in {0, ExtraMatches}}

Init ==
    /\ now \in Clocks
    /\ args = NoArgs
    /\ ret = Pending
    /\ pc = "Received"
    /\ event \in Events
    /\ filters = NoneV
    /\ sort_param = NoneV
    /\ features = NoneV
    /\ calls = <<>>
    /\ query = NoQuery
    /\ res = NoneV
    /\ outcome = Pending
    /\ LogsIdle

\* lambda_handler up to `filters = filters if filters else None`.
Compile ==
    /\ pc = "Received"
    /\ LET c == CompileFilters(event, now)
       IN IF c.status = "raised"
          THEN /\ pc' = "Failed"
               /\ outcome' = c
               /\ UNCHANGED <<filters, sort_param>>
          ELSE /\ pc' = "FiltersCompiled"
               /\ filters' = c.value.filters
               /\ sort_param' = c.value.sort_param
               /\ UNCHANGED outcome
    /\ UNCHANGED <<now, args, ret, event, features, calls, query, res, logVars>>

\* Mutant: the embedding is requested whatever the method.
Embed_AnyMethod ==
    /\ pc = "FiltersCompiled"
    /\ \E f \in EmbeddingResults : features' = f
    /\ calls' = Append(calls, "embed")
    /\ pc' = "EmbeddingRequested"
    /\ UNCHANGED <<now, args, ret, event, filters, sort_param, query, res, outcome, logVars>>

\* features = invoke_sagemaker_endpoint(...)
Embed ==
    /\ pc = "FiltersCompiled"
    /\ event.method = "SemanticSearch"
    /\ \E f \in EmbeddingResults : features' = f
    /\ calls' = Append(calls, "embed")
    /\ pc' = "EmbeddingRequested"
    /\ UNCHANGED <<now, args, ret, event, filters, sort_param, query, res, outcome, logVars>>

SemanticWrap(api_response) == [method |-> "SemanticSearch", response |-> api_response]

\* The body is json.dumps of this value.
KeywordWrap(api_response) == [statusCode |-> 200, body |-> [keyword_response |-> api_response]]

\* Mutant: a failed search is taken for an empty result and projected.
Search_FailureSwallowed(q, method) ==
    /\ query' = q
    /\ calls' = Append(calls, "search")
    /\ \/ \E r \in BackendResults :
            /\ res' = r
            /\ pc' = "Responded"
            /\ outcome' = Returned(IF method = "SemanticSearch"
                                   THEN SemanticWrap(create_api_response_geojson(r))
                                   ELSE KeywordWrap(create_api_response_geojson(r)))
       \/ /\ res' = NoneV
          /\ pc' = "Responded"
          /\ outcome' = Returned(IF method = "SemanticSearch"
                                 THEN SemanticWrap([total_hits |-> 0, items |-> <<>>])
                                 ELSE KeywordWrap([total_hits |-> 0, items |-> <<>>]))

\* os_client.search(...) and what follows it in the branch of `method`: the
\* search returns, and its result is projected and wrapped, or it raises.
Search(q, method) ==
    /\ query' = q
    /\ calls' = Append(calls, "search")
    /\ \/ \E r \in BackendResults :
            /\ res' = r
            /\ pc' = "Responded"
            /\ outcome' = Returned(IF method = "SemanticSearch"
                                   THEN SemanticWrap(create_api_response_geojson(r))
                                   ELSE KeywordWrap(create_api_response_geojson(r)))
       \/ /\ res' = NoneV
          /\ pc' = "Failed"
          /\ outcome' = Raised("OpenSearchException")

\* semantic_search_neighbors(...) and the return of the Semantic branch.
SearchSemantic ==
    /\ pc = "EmbeddingRequested"
    /\ Search(SemanticQuery(features, sort_param,
                            EventGet(event, "size", IntV(DefaultSize)),
                            EventGet(event, "from", IntV(DefaultFrom)),
                            model_name, filters),
              "SemanticSearch")
    /\ UNCHANGED <<now, args, ret, event, filters, sort_param, features, logVars>>

\* text_search_keywords(...) and the return of the else branch.
SearchKeywords ==
    /\ pc = "FiltersCompiled"
    /\ event.method # "SemanticSearch"
    /\ Search(TextQuery(event.searchString, k, model_name), "KeywordSearch")
    /\ UNCHANGED <<now, args, ret, event, filters, sort_param, features, logVars>>

Next == Compile \/ Embed \/ SearchSemantic \/ SearchKeywords

Spec == Init /\ [][Next]_vars

-----------------------------------------------------------------------------
(* fetch_log_events (lambda-search-logs): the generator and the log service
   it pages through *)

MaxLogTokens == 3

PageSizes == {0, 2}

\* A nextForwardToken of the service.
Tok(i) == [t |-> "token", v |-> i]

\* d.get(key, default)
Get(d, key, default) == IF DictHas(d, key) THEN DictGet(d, key) ELSE default

\* Mutant: the key is added again instead of being overwritten, so that a
\* lookup still finds its first value.
DictSet_AppendOnly(d, key, value) == Append(d, <<key, value>>)

\* d[key] = value
DictSet(d, key, value) ==
    IF DictHas(d, key)
    THEN [i \in DOMAIN d |-> IF d[i][1] = key THEN <<key, value>> ELSE d[i]]
    ELSE Append(d, <<key, value>>)

\* The n-th event of the page the service gives for a request.
LogEvent(request, n) == [request |-> request, n |-> n]

\* A response of get_log_events: the page's events and the token to go on.
LogResponse(request, answer) ==
    << <<"events", ListV([n \in 1..answer.size |-> LogEvent(request, n)])>>,
       <<"nextForwardToken", Tok(answer.next)>> >>

\* logs_client.get_log_events(**params) against a service: `first` is its
\* answer to a request without nextToken, `after[i]` to one with token i.
get_log_events(service, params_) ==
    IF DictHas(params_, "nextToken")
    THEN LogResponse(DictGet(params_, "nextToken"),
                     service.after[DictGet(params_, "nextToken").v])
    ELSE LogResponse(NoneV, service.first)

Answers == [size : PageSizes, next : 1..MaxLogTokens]

\* Following the tokens from token i, the service comes to a response whose
\* token is the one it was called with, within `fuel` requests.
RECURSIVE ComesToRest(_, _, _)
ComesToRest(service, i, fuel) ==
    IF service.after[i].next = i THEN TRUE
    ELSE IF fuel = 0 THEN FALSE
    ELSE ComesToRest(service, service.after[i].next, fuel - 1)

\* The log services that, after finitely many pages, return the token they
\* were called with.
LogServices ==
    {sv \in [first : Answers, after : [1..MaxLogTokens -> Answers]] :
        ComesToRest(sv, sv.first.next, MaxLogTokens)}

\* Lines 90-98: the locals before the loop.
InitLogs ==
    /\ now = AnyClock
    /\ args \in [fn : {"fetch_log_events"}, service : LogServices]
    /\ ret = Pending
    /\ HandlerIdle
    /\ fetch_pc = "while"
    /\ next_token = NoneV
    /\ events = <<>>
    /\ params = << <<"logGroupName", NameV("group")>>, <<"logStreamName", NameV("stream")>>,
                   <<"startFromHead", NameV("True")>> >>
    /\ event_index = 1
    /\ requests = <<>>
    /\ yielded = <<>>

\* Mutant: the loop goes on as long as the response carries a token.
LoopContinues_WhileToken == Get(events, "nextForwardToken", StrV(<<>>)) # StrV(<<>>)

\* `while next_token != events.get('nextForwardToken', '')`
LoopContinues == next_token # Get(events, "nextForwardToken", StrV(<<>>))

\* One turn of the loop up to the response: the test, the new next_token,
\* the nextToken parameter when the token is truthy, and the request.
RequestPage ==
    /\ fetch_pc = "while"
    /\ LoopContinues
    /\ LET token   == Get(events, "nextForwardToken", NoneV)
           params_ == IF token # NoneV /\ token # StrV(<<>>)
                      THEN DictSet(params, "nextToken", token) ELSE params
           page    == get_log_events(args.service, params_)
       IN /\ next_token' = token
          /\ params' = params_
          /\ events' = page
          /\ requests' = Append(requests, Get(params_, "nextToken", NoneV))
          /\ event_index' = 1
          /\ fetch_pc' = IF DictGet(page, "events").v = <<>> THEN "while" ELSE "for"
    /\ UNCHANGED <<now, args, ret, handlerVars, yielded>>

\* `for event in events.get('events'): yield event`, one event.
YieldEvent ==
    /\ fetch_pc = "for"
    /\ LET page == DictGet(events, "events").v
       IN /\ yielded' = Append(yielded, page[event_index])
          /\ IF event_index = Len(page)
             THEN fetch_pc' = "while" /\ event_index' = 1
             ELSE fetch_pc' = "for" /\ event_index' = event_index + 1
    /\ UNCHANGED <<now, args, ret, handlerVars, next_token, events, params, requests>>

\* The loop test fails: `return events`.
ReturnEvents ==
    /\ fetch_pc = "while"
    /\ ~LoopContinues
    /\ fetch_pc' = "done"
    /\ ret' = Returned(events)
    /\ UNCHANGED <<now, args, handlerVars, next_token, events, params, event_index,
                   requests, yielded>>

NextLogs == RequestPage \/ YieldEvent \/ ReturnEvents

SpecLogs == InitLogs /\ [][NextLogs]_vars

\* The generator is driven to its end: `for event in events` of
\* transform_logs takes every event until the generator returns.
SpecLogsFair == SpecLogs /\ WF_vars(NextLogs)

-----------------------------------------------------------------------------
(* Claims about query assembly and the Semantic branch, checked under Spec *)

\* The embedding is absent: None or an empty vector.
EmbeddingAbsent(f) == f = NoneV \/ (f.t = "list" /\ f.v = <<>>)

KnnClauses(q) ==
    LET IsKnn(c) == c.kind = "knn"
    IN SelectSeq(q.must, IsKnn)

\* C1: in every query assembled for the index backend, `must` has no knn
\* clause when the embedding is absent (None or empty), and exactly one knn
\* clause, carrying the embedding, when the embedding is a non-empty vector.
C1_KnnOnlyWithEmbedding ==
    query.kind = "semantic" =>
        /\ EmbeddingAbsent(features) => KnnClauses(query) = <<>>
        /\ ~EmbeddingAbsent(features) =>
             /\ Len(KnnClauses(query)) = 1
             /\ KnnClauses(query)[1].vector = features

\* C2: in Semantic mode, when the embedding provider fails or returns nothing,
\* the invocation goes on with the embedding absent: it submits a filter-only
\* query (no knn clause, the compiled filters) to the backend and, unless the
\* backend itself fails, returns a search response.
C2_EmbeddingFailureDegrades ==
    (event.method = "SemanticSearch" /\ pc \in {"Responded", "Failed"}
        /\ calls # <<>> /\ calls[1] = "embed" /\ EmbeddingAbsent(features))
    => /\ calls = <<"embed", "search">>
       /\ query.kind = "semantic"
       /\ KnnClauses(query) = <<>>
       /\ query.filter = (IF filters = NoneV THEN <<>> ELSE filters.v)
       /\ res # NoneV => (pc = "Responded" /\ outcome.status = "returned")
       /\ res = NoneV => outcome = Raised("OpenSearchException")

-----------------------------------------------------------------------------
(* Claims about build_date_filter, checked under SpecDate *)

DateReturned == args.fn = "build_date_filter" /\ ret.status = "returned"

\* A date value that is none of the sentinels null, not available;
\* indisponible, present (in any letter case).
PlainDate(d) == Truthy(d) /\ Lower(d) \notin (NullSentinels \cup {S_present})

\* C3: for a sentinel end date ("null" or "not available; indisponible", any
\* case) and no start date, build_date_filter returns exactly one clause, the
\* term end_field = "null", and no range clause.
C3_SentinelEndIsOneTerm ==
    (DateReturned /\ ~Truthy(args.start_date) /\ Truthy(args.end_date)
        /\ Lower(args.end_date) \in NullSentinels)
    => ret.value = <<TermClause(args.end_field, S_null)>>

IsStartSide(c) == c.kind = "range" /\ c.op = "gte"

IsEndSide(c) == c.kind = "term" \/ (c.kind = "range" /\ c.op = "lte")

\* C4: for every start_date and end_date the output has at most one start-side
\* clause (a gte range) and at most one end-side clause (the null term or an
\* lte range, never both), hence never more than two clauses.
C4_AtMostOneClausePerSide ==
    DateReturned =>
        /\ Cardinality({i \in DOMAIN ret.value : IsStartSide(ret.value[i])}) <= 1
        /\ Cardinality({i \in DOMAIN ret.value : IsEndSide(ret.value[i])}) <= 1
        /\ Len(ret.value) <= 2

\* C5: for a 4-character start date Y and an end date equal to "present" (any
\* case), build_date_filter returns exactly
\* [range begin_field gte Y-01-01, range end_field lte <current date>].
C5_YearToPresentIsTwoRanges ==
    (DateReturned /\ PlainDate(args.start_date) /\ Len(args.start_date) = 4
        /\ Truthy(args.end_date) /\ Lower(args.end_date) = S_present)
    => ret.value =
         <<RangeClause(args.begin_field, "gte", args.start_date \o <<"-","0","1","-","0","1">>),
           RangeClause(args.end_field, "lte", Strftime(now))>>

ExpectedStartBound(d) ==
    CASE Len(d) = 4 -> d \o <<"-","0","1","-","0","1">>
      [] Len(d) = 7 -> d \o <<"-","0","1">>
      [] OTHER -> d

ExpectedEndBound(d) ==
    CASE Len(d) = 4 -> d \o <<"-","1","2","-","3","1">>
      [] Len(d) = 7 -> d \o <<"-","3","1">>
      [] OTHER -> d

\* C6: for every non-sentinel date value, a 4-character start becomes Y-01-01
\* and a 4-character end Y-12-31, a 7-character start becomes YM-01 and a
\* 7-character end YM-31, and a value of any other length is the bound as given.
C6_PartialDatesExpand ==
    DateReturned =>
        /\ PlainDate(args.start_date) =>
             /\ Len(ret.value) >= 1
             /\ ret.value[1] = RangeClause(args.begin_field, "gte",
                                           ExpectedStartBound(args.start_date))
        /\ PlainDate(args.end_date) =>
             /\ Len(ret.value) >= 1
             /\ ret.value[Len(ret.value)] = RangeClause(args.end_field, "lte",
                                                        ExpectedEndBound(args.end_date))
             /\ Cardinality({i \in DOMAIN ret.value : IsEndSide(ret.value[i])}) = 1

\* C6 witness: a year start and a year-month end have been compiled.
C6_Witness ==
    /\ DateReturned
    /\ args.start_date = D_year
    /\ args.end_date = D_month
    /\ Len(ret.value) = 2

-----------------------------------------------------------------------------
(* Claims about build_spatial_filter, checked under SpecSpatial *)

SpatialCalled == args.fn = "build_spatial_filter" /\ ret # Pending

FourRelations == {"intersects", "disjoint", "within", "contains"}

\* -limit <= v <= limit, for a token's number v
WithinLimit(v, limit) ==
    /\ v.n <= limit * Pow10(v.k)
    /\ v.n >= 0 - (limit * Pow10(v.k))

\* The lons (1st, 3rd) are in [-180, 180] and the lats (2nd, 4th) in [-90, 90].
CoordinatesInRange(toks) ==
    /\ WithinLimit(toks[1].val, 180)
    /\ WithinLimit(toks[3].val, 180)
    /\ WithinLimit(toks[2].val, 90)
    /\ WithinLimit(toks[4].val, 90)

AllNumeric(toks) == \A i \in DOMAIN toks : toks[i].numeric

\* The bbox string is four in-range numbers min_lon|min_lat|max_lon|max_lat.
FourInRangeNumbers(toks) ==
    Len(toks) = 4 /\ AllNumeric(toks) /\ CoordinatesInRange(toks)

\* C7: for every bbox string of four in-range numbers
\* min_lon|min_lat|max_lon|max_lat, build_spatial_filter returns an envelope
\* with coordinates [[min_lon, max_lat], [max_lon, min_lat]] on the given geo
\* field with the given relation.
C7_EnvelopeCornerOrder ==
    (SpatialCalled /\ FourInRangeNumbers(args.tokens)
        /\ args.relation \in FourRelations \cup {NoneS})
    => ret = Returned(
         [kind |-> "geo_shape", field |-> args.geo_field, type |-> "envelope",
          coordinates |-> << <<args.tokens[1].val, args.tokens[4].val>>,
                             <<args.tokens[3].val, args.tokens[2].val>> >>,
          relation |-> IF args.relation = NoneS THEN "intersects" ELSE args.relation])

\* C7 witness: an envelope was returned for four numbers whose two lons differ
\* and whose two lats differ.
C7_Witness ==
    /\ SpatialCalled
    /\ ret.status = "returned"
    /\ Len(args.tokens) = 4
    /\ args.tokens[1].val # args.tokens[3].val
    /\ args.tokens[2].val # args.tokens[4].val

NonBlankOf(toks) ==
    LET NonBlank(tk) == \E i \in DOMAIN tk.text : tk.text[i] # " "
    IN SelectSeq(toks, NonBlank)

C9_RelationDefaultAndSupport ==
    SpatialCalled =>
        /\ args.relation = NoneS =>
             /\ ret # Raised("ValueError: unsupported relation")
             /\ ret.status = "returned" => ret.value.relation = "intersects"
        /\ args.relation \in FourRelations =>
             /\ ret # Raised("ValueError: unsupported relation")
             /\ ret.status = "returned" => ret.value.relation = args.relation
             /\ FourInRangeNumbers(args.tokens) => ret.status = "returned"
        /\ args.relation \notin FourRelations \cup {NoneS} =>
             ret = Raised("ValueError: unsupported relation")

\* C9 witness: an unsupported relation was rejected although the bbox is four
\* in-range numbers.
C9_Witness ==
    /\ SpatialCalled
    /\ args.relation = "overlaps"
    /\ FourInRangeNumbers(args.tokens)
    /\ ret.status = "raised"

-----------------------------------------------------------------------------
(* Claims about build_sort_filter, checked under SpecSort *)

SortCalled == args.fn = "build_sort_filter" /\ ret # Pending

\* C10: when the resolved sort field is _score (requested as relevancy or
\* _score) the returned order is desc whatever order was requested; for date,
\* popularity and title the requested order is kept.
C10_ScoreOrderForcedDesc ==
    SortCalled =>
        /\ args.sort_field \in {"relevancy", "_score"} =>
             ret = Returned(<<[kind |-> "sort", field |-> "_score", order |-> "desc"]>>)
        /\ args.sort_field \in {"date", "popularity", "title"} =>
             ret = Returned(<<[kind |-> "sort", field |-> args.sort_field,
                               order |-> args.sort_order]>>)
        /\ (ret.status = "returned" /\ ret.value[1].field = "_score") =>
             ret.value[1].order = "desc"

\* C10 witness: relevancy was requested in ascending order and a directive
\* was returned.
C10_Witness ==
    /\ SortCalled
    /\ args.sort_field = "relevancy"
    /\ args.sort_order = "asc"
    /\ ret.status = "returned"

FourSortFields == {"_score", "date", "popularity", "title"}

\* The field a request for sort_field resolves to: _score for relevancy.
ResolvedField(sort_field) == IF sort_field = "relevancy" THEN "_score" ELSE sort_field

-----------------------------------------------------------------------------
(* Claims about build_wildcard_filter, checked under SpecWildcard *)

WildcardCalled == args.fn = "build_wildcard_filter" /\ ret # Pending

\* A piece of the value string without the spaces at its two ends.
RECURSIVE Trimmed(_)
Trimmed(piece) ==
    IF piece = <<>> THEN <<>>
    ELSE IF Head(piece) = " " THEN Trimmed(Tail(piece))
    ELSE IF piece[Len(piece)] = " " THEN Trimmed(SubSeq(piece, 1, Len(piece) - 1))
    ELSE piece

\* V: the trimmed non-empty tokens of the value string, in order.
TrimmedTokens(toks) ==
    LET trimmed == [i \in DOMAIN toks |-> Trimmed(toks[i])]
        NonEmpty(v) == v # <<>>
    IN SelectSeq(trimmed, NonEmpty)

\* C12: for field paths F and a comma-separated value string whose trimmed
\* non-empty tokens are V, build_wildcard_filter returns one OR group with
\* exactly |V| x |F| should-clauses, the *value* wildcard of every (value,
\* field path) pair, value-major, with minimum_should_match = 1.
C12_WildcardValueMajor ==
    WildcardCalled =>
        LET F == args.field_paths
            V == TrimmedTokens(args.tokens)
            g == ret.value
        IN /\ ret.status = "returned"
           /\ g.kind = "bool"
           /\ g.minimum_should_match = 1
           /\ Len(g.should) = Len(V) * Len(F)
           /\ \A a \in DOMAIN V : \A b \in DOMAIN F :
                g.should[(a - 1) * Len(F) + b] =
                    [kind |-> "wildcard", field |-> F[b],
                     value |-> <<"*">> \o V[a] \o <<"*">>]

\* C12 witness: two padded values over two field paths gave four clauses.
C12_Witness ==
    /\ WildcardCalled
    /\ args.field_paths = <<"a.en", "a.fr">>
    /\ args.values = <<"x", ",", " ", "y">>
    /\ Len(ret.value.should) = 4

-----------------------------------------------------------------------------
(* Claims about the filters and the pagination of the submitted query,
   checked under Spec *)

\* An OR group with no alternative.
EmptyOrGroup(c) == c.kind = "bool" /\ c.should = <<>>

\* C13: when the organization input has no non-empty token after splitting
\* on "," and trimming, lambda_handler treats it as no filter: the filter list
\* of the submitted query never contains an OR group whose should-list is
\* empty.
C13_NoVacuousOrGroup ==
    query.kind = "semantic" =>
        \A i \in DOMAIN query.filter : ~EmptyOrGroup(query.filter[i])

\* size is given and int(size) raises.
NonNumeric(x) == x # Absent /\ PyInt(x).status = "raised"

\* C14: the size of the submitted query is a positive integer; a size of 0
\* and a non-numeric size both become 10 and do not fail the request.
C14_SizePositive ==
    /\ query.kind = "semantic" => (query.size.t = "int" /\ query.size.v > 0)
    /\ query.kind = "text" => query.size > 0
    /\ (event.size = IntV(0) \/ NonNumeric(event.size)) =>
         /\ outcome # Raised("ValueError: invalid literal for int()")
         /\ query.kind = "semantic" => query.size = IntV(10)

\* C15: the from of the submitted query is a non-negative integer; a
\* negative from and a non-numeric from both become 0 and do not fail the
\* request.
C15_FromNonNegative ==
    /\ query.kind = "semantic" => (query.from.t = "int" /\ query.from.v >= 0)
    /\ ((event.from.t = "int" /\ event.from.v < 0) \/ NonNumeric(event.from)) =>
         /\ (event.size = Absent /\ event.sort = AbsentS /\ outcome.status = "raised")
              => outcome = Raised("OpenSearchException")
         /\ query.kind = "semantic" => query.from = IntV(0)

-----------------------------------------------------------------------------
(* Claims about create_api_response_geojson, checked under Spec on the
   response of an invocation whose search returned *)

\* The projected response inside what lambda_handler returned.
Response ==
    IF event.method = "SemanticSearch" THEN outcome.value.response
    ELSE outcome.value.body.keyword_response

HasCoordinates(hit) == hit.source # NoneV /\ DictHas(hit.source.v, "coordinates")

\* The hits of the page that have a coordinates field, in backend order.
HitsWithCoordinates == SelectSeq(res.hits, HasCoordinates)

Properties(item) == item.features[1].properties

\* The source fields of a hit without vector and coordinates.
PlainFields(hit) == DictRemove(DictRemove(hit.source.v, "vector"), "coordinates")

\* C16: for every hit that has a coordinates field, the projected item is a
\* FeatureCollection with exactly one Feature whose geometry is the hit's
\* coordinates and whose properties are the hit's source fields without
\* vector and coordinates, plus relevancy equal to the hit's score and
\* row_num.
C16_HitProjectedAsFeature ==
    pc = "Responded" =>
        /\ Len(Response.items) = Len(HitsWithCoordinates)
        /\ \A i \in DOMAIN Response.items :
             LET item == Response.items[i]
                 hit  == HitsWithCoordinates[i]
             IN /\ item.type = "FeatureCollection"
                /\ Len(item.features) = 1
                /\ item.features[1].type = "Feature"
                /\ item.features[1].geometry = DictGet(hit.source.v, "coordinates")
                /\ DictRemove(DictRemove(Properties(item), "relevancy"), "row_num")
                     = PlainFields(hit)
                /\ DictHas(Properties(item), "row_num")
                /\ DictHas(Properties(item), "relevancy")
                /\ DictGet(Properties(item), "relevancy") = hit.score

\* C17: in every projected properties map the first key is relevancy, the
\* second is row_num, and the remaining keys are the source document's
\* remaining fields in their original order.
C17_RelevancyThenRowNum ==
    pc = "Responded" =>
        \A i \in DOMAIN Response.items :
            LET keys == DictKeys(Properties(Response.items[i]))
            IN /\ Len(keys) >= 2
               /\ keys[1] = "relevancy"
               /\ keys[2] = "row_num"
               /\ SubSeq(keys, 3, Len(keys)) = DictKeys(PlainFields(HitsWithCoordinates[i]))

\* C18: projecting N hits of which exactly one is malformed (has no
\* coordinates), at any position, raises no exception, emits the N-1 valid
\* hits as items in backend order, and reports returned_hits = N-1.
C18_OneMalformedHitSkipped ==
    (res # NoneV /\ Len(res.hits) - Len(HitsWithCoordinates) = 1) =>
        /\ pc = "Responded"
        /\ outcome.status = "returned"
        /\ Len(Response.items) = Len(res.hits) - 1
        /\ \A i \in DOMAIN Response.items :
             /\ Response.items[i].features[1].geometry
                  = DictGet(HitsWithCoordinates[i].source.v, "coordinates")
             /\ DictGet(Properties(Response.items[i]), "id")
                  = DictGet(HitsWithCoordinates[i].source.v, "id")
        /\ "returned_hits" \in DOMAIN Response
        /\ Response.returned_hits = Len(res.hits) - 1

\* C19: the response's total_hits is the total match count the backend
\* reported for the query, which can be larger than the number of hits on
\* the page; it is not the length of the returned hit list.
C19_TotalHitsIsBackendTotal ==
    pc = "Responded" => Response.total_hits = res.total

\* C20: in every response the row_num of the i-th item is i, so the row
\* numbers are exactly 1..len(items) with no gaps, also when a backend hit was
\* skipped during projection.
C20_RowNumIsItemRank ==
    pc = "Responded" =>
        \A i \in DOMAIN Response.items :
            /\ DictHas(Properties(Response.items[i]), "row_num")
            /\ DictGet(Properties(Response.items[i]), "row_num") = IntV(i)

-----------------------------------------------------------------------------
(* Claims about the course of an invocation, checked under Spec *)

\* The bbox is given and build_spatial_filter rejects it under a supported
\* relation: it is malformed or out of range.
InvalidBBox(e) ==
    /\ Truthy(e.bbox)
    /\ build_spatial_filter(filter_config.bbox[1], e.bbox, DefaultRelation).status = "raised"

UnsupportedRelation(e) == e.relation \notin FourRelations \cup {NoneS}

\* A sort field is named and is none of the supported ones.
UnsupportedSortField(e) ==
    e.sort \notin {AbsentS, ""} /\ ResolvedField(e.sort) \notin FourSortFields

InvalidFilterValue(e) ==
    InvalidBBox(e) \/ UnsupportedRelation(e) \/ UnsupportedSortField(e)

\* C21: in every invocation where a user-supplied filter value is invalid
\* (malformed or out-of-range bbox, unsupported relation, unsupported sort
\* field), the invocation ends in a rejection and no search is ever submitted
\* to the backend, in Semantic and in lexical mode alike.
C21_InvalidFilterRejected ==
    (InvalidFilterValue(event) /\ pc # "Received") =>
        /\ pc = "Failed"
        /\ outcome.status = "raised"
        /\ calls = <<>>
        /\ query = NoQuery

EmbedCalls == Cardinality({i \in DOMAIN calls : calls[i] = "embed"})

RequestFrom == EventGet(event, "from", IntV(DefaultFrom))

RequestSize == EventGet(event, "size", IntV(DefaultSize))

\* C23: in Semantic mode and in lexical mode, the submitted query has every
\* compiled filter of the request in its filter clause list and carries the
\* request's from, size and compiled sort as top-level directives.
C23_QueryCarriesFiltersAndPaging ==
    query # NoQuery =>
        /\ "filter" \in DOMAIN query
        /\ query.filter = (IF filters = NoneV THEN <<>> ELSE filters.v)
        /\ "from" \in DOMAIN query /\ query.from = RequestFrom
        /\ "sort" \in DOMAIN query /\ query.sort = sort_param
        /\ query.size = RequestSize

-----------------------------------------------------------------------------
(* Claims about the language of the projected fields, checked under Spec *)

\* What the lookup of localized fields gives for a document: the French
\* title, description and keywords of document "a", nothing for the others.
LocalizedFields(document_id) ==
    IF document_id = StrV(<<"a">>)
    THEN << <<"title", StrV(<<"T", "f">>)>>, <<"description", StrV(<<"D", "f">>)>>,
            <<"keywords", StrV(<<"K", "f">>)>> >>
    ELSE <<>>

LocalizedKeys == {"title", "description", "keywords"}

\* C24: when the request's language is fr and the lookup returns non-empty
\* title, description and keywords for a document's identifier, the projected
\* properties of that document carry those three localized values; when the
\* lookup fails or returns a partial result the original fields are left
\* unchanged and projection does not raise.
C24_LocalizedFieldsSubstituted ==
    (pc = "Responded" /\ event.lang = "fr") =>
        \A i \in DOMAIN Response.items :
            LET props   == Properties(Response.items[i])
                looked  == LocalizedFields(DictGet(props, "id"))
                orig    == HitsWithCoordinates[i].source.v
            IN \A key \in LocalizedKeys :
                 /\ DictHas(props, key)
                 /\ DictGet(props, key) =
                      (IF Len(looked) = 3 THEN DictGet(looked, key) ELSE DictGet(orig, key))

-----------------------------------------------------------------------------
(* Claims about the backend search of an invocation, checked under Spec *)

SearchCalls == Cardinality({i \in DOMAIN calls : calls[i] = "search"})

\* C25: every invocation submits at most one search to the backend; when
\* that search fails the invocation ends in a failure, without retrying the
\* search and without projecting any result.
C25_OneSearchNoRetry ==
    /\ SearchCalls <= 1
    /\ (SearchCalls = 1 /\ res = NoneV) =>
         /\ pc = "Failed"
         /\ outcome = Raised("OpenSearchException")
    /\ pc \in {"Failed", "Responded"} => ~ENABLED Next

\* C25 witness: the one search of a Semantic invocation failed and the
\* invocation ended in that failure.
C25_Witness ==
    /\ calls = <<"embed", "search">>
    /\ res = NoneV
    /\ pc = "Failed"
    /\ outcome = Raised("OpenSearchException")

-----------------------------------------------------------------------------
(* Claims about the compiled filters and sort, checked under Spec *)

StructuredKinds == {"bool", "range", "term", "geo_shape"}

\* The clauses of the compiled filter list of the wanted kind and field.
MetadataSourceTerms ==
    LET IsIt(c) == c.kind = "term" /\ c.field = "metadata_source.keyword"
    IN SelectSeq(filters.v, IsIt)

\* C26: after lambda_handler has compiled the filters, every element of the
\* filter list is a structured clause (an OR group, a range, a term or a
\* geo_shape); a non-empty metadata_source adds exactly one term clause
\* metadata_source.keyword = <value> and never a bare string.
C26_FiltersAreClauses ==
    (pc \notin {"Received", "Failed"} /\ filters # NoneV) =>
        /\ \A i \in DOMAIN filters.v : filters.v[i].kind \in StructuredKinds
        /\ Truthy(event.metadata_source) =>
             /\ Len(MetadataSourceTerms) = 1
             /\ MetadataSourceTerms[1].value = event.metadata_source

\* The range and term clauses of the compiled filter list.
DateClauses ==
    LET IsDate(c) == c.kind \in {"range", "term"}
    IN SelectSeq(filters.v, IsDate)

\* C27: when a request gives an end date and no start date, every date clause
\* added to the filter list is keyed by the configured end field, never by
\* an absent field name; a start-only request's clause is keyed by the
\* configured begin field.
C27_DateClauseKeyedByItsField ==
    (pc \notin {"Received", "Failed"} /\ filters # NoneV) =>
        /\ (Truthy(event.end) /\ ~Truthy(event.begin)) =>
             \A i \in DOMAIN DateClauses : DateClauses[i].field = filter_config.end[1]
        /\ (Truthy(event.begin) /\ ~Truthy(event.end)) =>
             \A i \in DOMAIN DateClauses : DateClauses[i].field = filter_config.begin[1]

\* C28: every item emitted by projection has both a relevancy key and a
\* row_num key in its properties, also for hits whose score is null.
C28_RelevancyAndRowNumPresent ==
    pc = "Responded" =>
        \A i \in DOMAIN Response.items :
            /\ DictHas(Properties(Response.items[i]), "row_num")
            /\ DictHas(Properties(Response.items[i]), "relevancy")

\* C29: for every request that reaches the backend in Semantic mode, the sort
\* of the submitted query is a compiled directive, a one-element list with
\* field in {_score, date, popularity, title} and order in {asc, desc},
\* whatever sort and order the request carried.
C29_SortIsCompiledDirective ==
    query.kind = "semantic" =>
        /\ query.sort.t = "list"
        /\ Len(query.sort.v) = 1
        /\ query.sort.v[1].kind = "sort"
        /\ query.sort.v[1].field \in FourSortFields
        /\ query.sort.v[1].order \in {"asc", "desc"}

-----------------------------------------------------------------------------
(* Claims about fetch_log_events, checked under SpecLogsFair *)

\* The service's answer to a request: its page size and next token.
AnswerTo(request) ==
    IF request = NoneV THEN args.service.first ELSE args.service.after[request.v]

\* The service answered the request with the token it was called with.
AtRest(request) == Tok(AnswerTo(request).next) = request

\* The events of the pages of the first `pages` requests, in page order.
RECURSIVE EventsOfPages(_)
EventsOfPages(pages) ==
    IF pages = 0 THEN <<>>
    ELSE EventsOfPages(pages - 1)
         \o [n \in 1..AnswerTo(requests[pages]).size |-> LogEvent(requests[pages], n)]

\* The first request carries no token, every later one the token of the
\* response before it, and none follows a response that was at rest.
RequestsInTokenOrder ==
    \A j \in DOMAIN requests :
        /\ j = 1 => requests[j] = NoneV
        /\ j > 1 => /\ requests[j] = Tok(AnswerTo(requests[j - 1]).next)
                    /\ ~AtRest(requests[j - 1])

\* What has been yielded is the events of the fetched pages, in page order,
\* each once: all of them but the part of the last page still to come.
YieldedInPageOrder ==
    /\ \A i, j \in DOMAIN yielded : i # j => yielded[i] # yielded[j]
    /\ IF fetch_pc = "for"
       THEN yielded = EventsOfPages(Len(requests) - 1)
                        \o SubSeq(DictGet(events, "events").v, 1, event_index - 1)
       ELSE yielded = EventsOfPages(Len(requests))

\* The generator has returned only after a response at rest, its last.
StoppedAtRest ==
    fetch_pc = "done" => (requests # <<>> /\ AtRest(requests[Len(requests)]))

FetchSafe ==
    /\ args.fn = "fetch_log_events" => RequestsInTokenOrder
    /\ args.fn = "fetch_log_events" => YieldedInPageOrder
    /\ args.fn = "fetch_log_events" => StoppedAtRest

\* C30: against a log service that, after finitely many pages, returns a
\* nextForwardToken equal to the token it was called with, fetch_log_events
\* terminates; it requests pages strictly in token order, yields every event
\* of every page it fetched exactly once in page order, and stops at the
\* first response whose token equals the request's token.
C30_FetchLogEventsTerminates ==
    /\ []FetchSafe
    /\ <>(fetch_pc = "done")

\* C30 witness: the generator returned after three pages, requested in the
\* order of the tokens the service handed out, with all six events yielded.
C30_Witness ==
    /\ fetch_pc = "done"
    /\ requests = <<NoneV, Tok(2), Tok(1)>>
    /\ Len(yielded) = 6

====
